---- MODULE Spec2Model ----
(***************************************************************************)
(* A model of src/index.js, the OpenAPI-to-route compiler:                 *)
(*   resolveInternalReferences / getRefsInsideSpec  (SpecResolve)          *)
(*   transformPath                                  (SpecPath)             *)
(*   filterReadOnlyProperties / filterWriteOnlyProperties (SpecFilter)     *)
(*   routesFromOpenApiSpecs / parseMethods / parseParameters (SpecRoutes)  *)
(*                                                                         *)
(* JSON text is a sequence of tokens, a URL template a sequence of         *)
(* characters, a JSON object a function from its keys to its values.       *)
(***************************************************************************)
EXTENDS Integers, Sequences, FiniteSets, TLC

VARIABLES
  pc,                 \* the position of the running call
  path, url,          \* transformPath: its argument and its result
  schema,             \* the schema object handed to a filter (items may be written)
  given,              \* the schema as it was when the filter was called
  filterName,         \* which filter ran
  filtered,           \* what the filter produced: [kind, value]
  openApiSpec,        \* resolveInternalReferences: its argument
  specs,              \* its working copy of the document
  groupIdx, keyIdx,   \* the component group and the component key being resolved
  remainingRefsList,  \* the references the final scan found
  failure,            \* how the call failed, "none" while it has not
  openAPiRawSpecs,    \* routesFromOpenApiSpecs: the caller's document
  rawBefore,          \* the caller's document as it was at the call
  handlers,           \* the caller's handler registry
  handlersBefore,     \* the registry as it was at the call
  resolvedSpecs,      \* `specs` of routesFromOpenApiSpecs, the resolved copy
  routes,             \* the route list being built
  parsedRoutes,       \* the routes parseMethods has mapped so far for one path
  pathIdx, methodIdx, \* the path and the method being compiled
  fatal,              \* how the compilation failed, "none" while it has not
  reported            \* the handler name the missing-handler message names

pathVars == <<path, url>>
filterVars == <<schema, given, filterName, filtered>>
resolveVars == <<openApiSpec, specs, groupIdx, keyIdx, remainingRefsList, failure>>
routesVars == <<openAPiRawSpecs, rawBefore, handlers, handlersBefore, resolvedSpecs,
                routes, parsedRoutes, pathIdx, methodIdx, fatal, reported>>
vars == <<pc, pathVars, filterVars, resolveVars, routesVars>>

(***************************************************************************)
(* Generic helpers on sequences.                                           *)
(***************************************************************************)
Range(s) == { s[i] : i \in DOMAIN s }

SeqsUpTo(S, n) == UNION { [1..m -> S] : m \in 0..n }

\* String.prototype.replaceAll(search, replacement) for a one-character search
\* string and a replacement without `$`, on a sequence of characters.
RECURSIVE replaceAllChar(_, _, _)
replaceAllChar(str, search, replacement) ==
  IF str = <<>> THEN <<>>
  ELSE (IF Head(str) = search THEN replacement ELSE <<Head(str)>>)
         \o replaceAllChar(Tail(str), search, replacement)

\* String.prototype.replace(search, replacement): the first occurrence only.
RECURSIVE replaceFirstChar(_, _, _)
replaceFirstChar(str, search, replacement) ==
  IF str = <<>> THEN <<>>
  ELSE IF Head(str) = search THEN replacement \o Tail(str)
  ELSE <<Head(str)>> \o replaceFirstChar(Tail(str), search, replacement)

(***************************************************************************)
(* JSON objects: a function from the keys present to their values.         *)
(***************************************************************************)
EmptyObject == [k \in {} |-> TRUE]

Has(obj, key) == key \in DOMAIN obj

\* obj.key = value
Put(obj, key, value) == (key :> value) @@ obj

\* The object with the keys of `keys` only.
Pick(obj, keys) == [k \in (DOMAIN obj \cap keys) |-> obj[k]]

\* !obj.flag for a flag that is absent (undefined) or a boolean.
Flagged(obj, flag) == Has(obj, flag) /\ obj[flag] = TRUE

\* Array.prototype.filter((key) => names.includes(key))
RECURSIVE KeepNames(_, _)
KeepNames(list, names) ==
  IF list = <<>> THEN <<>>
  ELSE (IF Head(list) \in names THEN <<Head(list)>> ELSE <<>>)
         \o KeepNames(Tail(list), names)

\* What a call produced: a value, or the exception it threw.  `arg` is the
\* argument object after the call (a filter writes into schema.items).
Returned(value, arg) == [kind |-> "returned", value |-> value, arg |-> arg]
Threw(error, arg) == [kind |-> error, value |-> EmptyObject, arg |-> arg]

(***************************************************************************)
(* The variables of a function that is not the one running keep these     *)
(* values.                                                                 *)
(***************************************************************************)
EmptyDocument == [paths |-> <<>>, components |-> <<>>]

IdlePath ==
  /\ path = <<>>
  /\ url = <<>>

IdleFilter ==
  /\ schema = EmptyObject
  /\ given = EmptyObject
  /\ filterName = "none"
  /\ filtered = [kind |-> "none", value |-> EmptyObject]

IdleResolve ==
  /\ openApiSpec = EmptyDocument
  /\ specs = EmptyDocument
  /\ groupIdx = 0
  /\ keyIdx = 0
  /\ remainingRefsList = <<>>
  /\ failure = "none"

IdleRoutes ==
  /\ openAPiRawSpecs = EmptyObject
  /\ rawBefore = EmptyObject
  /\ handlers = EmptyObject
  /\ handlersBefore = EmptyObject
  /\ resolvedSpecs = EmptyDocument
  /\ routes = <<>>
  /\ parsedRoutes = <<>>
  /\ pathIdx = 0
  /\ methodIdx = 0
  /\ fatal = "none"
  /\ reported = <<>>

(***************************************************************************)
(* filterReadOnlyProperties (src/index.js:108-136)                         *)
(* filterWriteOnlyProperties (src/index.js:158-190)                        *)
(***************************************************************************)
IsArraySchema(s) == Has(s, "type") /\ s["type"] = "array"

filterReadOnlyProperties(s) ==
  IF DOMAIN s = {} THEN Returned(EmptyObject, s)
  ELSE IF IsArraySchema(s) /\ ~Has(s, "items") THEN Threw("TypeError", s)
  ELSE
    LET holder == IF IsArraySchema(s) THEN s["items"] ELSE s
    IN IF ~Has(holder, "properties") THEN Threw("SyntaxError", s)
       ELSE IF ~Has(holder, "required") THEN Threw("TypeError", s)
       ELSE
         LET schemaProperties == holder["properties"]
             filteredPropertiesArray ==
               { k \in DOMAIN schemaProperties : ~Flagged(schemaProperties[k], "readOnly") }
             filteredProperties == Pick(schemaProperties, filteredPropertiesArray)
             filteredRequiredProperties ==
               KeepNames(holder["required"], filteredPropertiesArray)
             items == Put(Put(holder, "properties", filteredProperties),
                          "required", filteredRequiredProperties)
         IN IF IsArraySchema(s)
            THEN Returned(Put(s, "items", items), Put(s, "items", items))
            ELSE Returned(Put(Put(s, "properties", filteredProperties),
                              "required", filteredRequiredProperties), s)

filterWriteOnlyProperties(s) ==
  IF DOMAIN s = {} THEN Returned(EmptyObject, s)
  ELSE IF IsArraySchema(s) /\ ~Has(s, "items") THEN Threw("TypeError", s)
  ELSE
    LET holder == IF IsArraySchema(s) THEN s["items"] ELSE s
    IN IF ~Has(holder, "properties") THEN Threw("SyntaxError", s)
       ELSE
         LET schemaProperties == holder["properties"]
             filteredPropertiesArray ==
               { k \in DOMAIN schemaProperties : ~Flagged(schemaProperties[k], "writeOnly") }
             filteredProperties == Pick(schemaProperties, filteredPropertiesArray)
             withProperties == Put(holder, "properties", filteredProperties)
             written ==
               IF Has(holder, "required")
               THEN Put(withProperties, "required",
                        KeepNames(holder["required"], filteredPropertiesArray))
               ELSE withProperties
         IN IF IsArraySchema(s)
            THEN Returned(Put(s, "items", written), Put(s, "items", written))
            ELSE Returned(written, s)

\* The schemas the filters are tried on.
PropertyNames == {"a", "b"}

PropertySchemas ==
  { EmptyObject, [readOnly |-> TRUE], [writeOnly |-> TRUE], [readOnly |-> FALSE] }

PropertyMaps == UNION { [names -> PropertySchemas] : names \in SUBSET PropertyNames }

RequiredLists == { <<>>, <<"a">>, <<"b">>, <<"a", "b">>, <<"b", "c">> }

\* properties, with or without a required list, with or without a `format`
Holders ==
  LET base == { [properties |-> p] : p \in PropertyMaps }
      req  == base \cup { Put(h, "required", r) : h \in base, r \in RequiredLists }
  IN req \cup { Put(h, "format", "x") : h \in req }

Schemas ==
  Holders
    \cup { Put(h, "type", "object") : h \in Holders }
    \cup { [type |-> "array", items |-> h] : h \in Holders }
    \cup { [type |-> "array", items |-> h, format |-> "x"] : h \in Holders }
    \cup { EmptyObject, [type |-> "string"], [type |-> "array"] }

InitFilter ==
  /\ pc = "filter"
  /\ schema \in Schemas
  /\ given = schema
  /\ filterName = "none"
  /\ filtered = [kind |-> "none", value |-> EmptyObject]
  /\ IdlePath
  /\ IdleResolve
  /\ IdleRoutes

CallFilterReadOnly ==
  /\ pc = "filter"
  /\ LET r == filterReadOnlyProperties(schema)
     IN /\ filtered' = [kind |-> r.kind, value |-> r.value]
        /\ schema' = r.arg
  /\ filterName' = "readOnly"
  /\ pc' = "filterDone"
  /\ UNCHANGED <<given, pathVars, resolveVars, routesVars>>

CallFilterWriteOnly ==
  /\ pc = "filter"
  /\ LET r == filterWriteOnlyProperties(schema)
     IN /\ filtered' = [kind |-> r.kind, value |-> r.value]
        /\ schema' = r.arg
  /\ filterName' = "writeOnly"
  /\ pc' = "filterDone"
  /\ UNCHANGED <<given, pathVars, resolveVars, routesVars>>

NextFilter == CallFilterReadOnly \/ CallFilterWriteOnly

SpecFilter == InitFilter /\ [][NextFilter]_vars

\* The object (the schema itself, or its items for an array) whose
\* properties a filter works on.
HolderOf(s) == IF IsArraySchema(s) THEN s["items"] ELSE s

HasPropertyMap(s) ==
  /\ DOMAIN s # {}
  /\ IsArraySchema(s) => Has(s, "items")
  /\ Has(HolderOf(s), "properties")

\* What the specification asks of either filter, for the flag it removes.
ExpectedFilter(s, flag) ==
  LET h == HolderOf(s)
      kept == { k \in DOMAIN h["properties"] : ~Flagged(h["properties"][k], flag) }
      h1 == Put(h, "properties", Pick(h["properties"], kept))
      h2 == IF Has(h, "required")
            THEN Put(h1, "required", KeepNames(h["required"], kept))
            ELSE h1
  IN IF IsArraySchema(s) THEN Put(s, "items", h2) ELSE h2

\* C6: both filters, on every schema with a properties map (required list
\* present or absent), return the schema with the flagged properties
\* removed, required pruned when present and absent when absent, every other
\* key unchanged; for an array schema the same on items.
C6_FiltersSymmetric ==
  (pc = "filterDone" /\ HasPropertyMap(given)) =>
     /\ filtered.kind = "returned"
     /\ filtered.value = ExpectedFilter(given, filterName)

(***************************************************************************)
(* JSON text.  An object of the document is the sequence of its members,   *)
(* each member one token; its text is "{", the members separated by ",",   *)
(* and "}".  A member is                                                   *)
(*   RefMember(p)   "$ref":"p"                                             *)
(*   EmptyRef       "$ref":"", a $ref member whose value is empty          *)
(*   "a", "s"       a member without `$`, such as "type":"object"          *)
(*   "$$"           "d":"$$", a member whose string value holds two `$`    *)
(*   "$"            "d":"$"                                                *)
(***************************************************************************)
\* `#/components/${componentGroupKey}/${componentKey}` (src/index.js:23,29)
Pointer(componentGroupKey, componentKey) ==
  "#/components/" \o componentGroupKey \o "/" \o componentKey

\* `"$ref":"${pointer}"`, the text replaced at src/index.js:29
RefMember(pointer) == "$ref:" \o pointer

GroupNames == {"schemas", "responses"}
KeyNames == {"err", "error", "missing"}
Pointers == { Pointer(g, k) : g \in GroupNames, k \in KeyNames }
RefMembers == { RefMember(p) : p \in Pointers }
EmptyRef == RefMember("")

\* A match of /"\$ref":[ ]?"[^"]+"/gi: a $ref member whose value holds one
\* character or more (src/index.js:7).
IsRef(token) == token \in RefMembers

\* The key of a member: JSON.parse keeps one member per key.
KeyOf(member) ==
  IF member \in RefMembers \cup {EmptyRef} THEN "$ref"
  ELSE IF member \in {"$$", "$"} THEN "d"
  ELSE member

RECURSIVE Join(_)
Join(members) ==
  IF members = <<>> THEN <<>>
  ELSE IF Len(members) = 1 THEN members
  ELSE <<Head(members), ",">> \o Join(Tail(members))

\* JSON.stringify of one object
stringify(object) == <<"{">> \o Join(object) \o <<"}">>

\* .substr(1).slice(0, -1) (src/index.js:28)
StripBraces(text) == SubSeq(text, 2, Len(text) - 1)

\* The replacement text as replaceAll inserts it: in a replacement string
\* `$$` stands for one `$`.
GetSubstitution(replacement) ==
  [i \in DOMAIN replacement |->
     IF replacement[i] = "$$" THEN "$" ELSE replacement[i]]

\* String.prototype.replaceAll(search, replacement), search one member's text
RECURSIVE replaceAll(_, _, _)
replaceAll(text, search, replacement) ==
  IF text = <<>> THEN <<>>
  ELSE (IF Head(text) = search THEN GetSubstitution(replacement)
        ELSE <<Head(text)>>)
         \o replaceAll(Tail(text), search, replacement)

\* JSON.parse accepts "{" "}" and "{" member ("," member)* "}".
IsJson(text) ==
  /\ Len(text) >= 2
  /\ text[1] = "{"
  /\ text[Len(text)] = "}"
  /\ LET inner == StripBraces(text)
     IN \/ inner = <<>>
        \/ /\ Len(inner) % 2 = 1
           /\ \A i \in DOMAIN inner :
                IF i % 2 = 1 THEN inner[i] \notin {"{", "}", ","}
                ELSE inner[i] = ","

\* One member per key: at the place of the key's first member, with the
\* value of its last.
Dedupe(members) ==
  LET n == Len(members)
      firsts == { i \in 1..n : \A j \in 1..(i - 1) : KeyOf(members[j]) # KeyOf(members[i]) }
      nth(r) == CHOOSE i \in firsts : Cardinality({ x \in firsts : x <= i }) = r
      last(i) == CHOOSE j \in i..n :
                   /\ KeyOf(members[j]) = KeyOf(members[i])
                   /\ \A l \in (j + 1)..n : KeyOf(members[l]) # KeyOf(members[i])
  IN [r \in 1..Cardinality(firsts) |-> members[last(nth(r))]]

\* JSON.parse of a valid object text
parse(text) ==
  LET inner == StripBraces(text)
  IN Dedupe([i \in 1..((Len(inner) + 1) \div 2) |-> inner[2 * i - 1]])

(***************************************************************************)
(* The document: the objects under paths, in order, and the component      *)
(* groups, in order, each with its components, in order.                   *)
(*   [paths: Seq(object),                                                  *)
(*    components: Seq([name, entries: Seq([key, value: object])])]         *)
(***************************************************************************)
\* Every object of the document, in the order of its text.
ObjectsOf(doc) ==
  LET RECURSIVE flat(_)
      flat(groups) ==
        IF groups = <<>> THEN <<>>
        ELSE [i \in DOMAIN Head(groups).entries |-> Head(groups).entries[i].value]
               \o flat(Tail(groups))
  IN doc.paths \o flat(doc.components)

RECURSIVE Concat(_)
Concat(texts) ==
  IF texts = <<>> THEN <<>> ELSE Head(texts) \o Concat(Tail(texts))

\* JSON.stringify(specs), as far as the objects that can hold a reference
stringifySpecs(doc) ==
  LET objects == ObjectsOf(doc)
  IN Concat([i \in DOMAIN objects |-> stringify(objects[i])])

(***************************************************************************)
(* getRefsInsideSpec (src/index.js:6-13)                                   *)
(***************************************************************************)
\* The regular expression with a mandatory blank after the colon, which the
\* text of JSON.stringify never holds.
getRefsInsideSpec_blank(specsStr) == <<>>

\* The matches of /"\$ref":[ ]?"[^"]+"/gi in the text, in order.
getRefsInsideSpec(specsStr) == SelectSeq(specsStr, IsRef)

(***************************************************************************)
(* resolveInternalReferences (src/index.js:20-41)                          *)
(***************************************************************************)
\* src/index.js:28-29, one turn of the inner forEach: the text the
\* replacement produces for each object of the document.
ReplacedText(doc, g, k) ==
  LET entry == doc.components[g].entries[k]
      componentStr == StripBraces(stringify(entry.value))
      search == RefMember(Pointer(doc.components[g].name, entry.key))
      objects == ObjectsOf(doc)
  IN [i \in DOMAIN objects |-> replaceAll(stringify(objects[i]), search, componentStr)]

ResolveParses(doc, g, k) ==
  \A i \in DOMAIN ReplacedText(doc, g, k) : IsJson(ReplacedText(doc, g, k)[i])

ResolvedOnce(doc, g, k) ==
  LET entry == doc.components[g].entries[k]
      componentStr == StripBraces(stringify(entry.value))
      search == RefMember(Pointer(doc.components[g].name, entry.key))
      step(object) == parse(replaceAll(stringify(object), search, componentStr))
  IN [paths |-> [i \in DOMAIN doc.paths |-> step(doc.paths[i])],
      components |->
        [h \in DOMAIN doc.components |->
           [name |-> doc.components[h].name,
            entries |->
              [j \in DOMAIN doc.components[h].entries |->
                 [key |-> doc.components[h].entries[j].key,
                  value |-> step(doc.components[h].entries[j].value)]]]]]

\* resolveInternalReferences run to its end, from component key k of group
\* g on: [kind, specs, remainingRefsList].
RECURSIVE ResolveFrom(_, _, _)
ResolveFrom(doc, g, k) ==
  IF g > Len(doc.components)
  THEN LET remaining == getRefsInsideSpec(stringifySpecs(doc))
       IN [kind |-> IF Len(remaining) > 0 THEN "exited" ELSE "returned",
           specs |-> doc, remainingRefsList |-> remaining]
  ELSE IF k > Len(doc.components[g].entries) THEN ResolveFrom(doc, g + 1, 1)
  ELSE IF ~ResolveParses(doc, g, k)
  THEN [kind |-> "threw", specs |-> doc, remainingRefsList |-> <<>>]
  ELSE ResolveFrom(ResolvedOnce(doc, g, k), g, k + 1)

resolveInternalReferences(doc) == ResolveFrom(doc, 1, 1)

\* The documents resolution is tried on.
SchemasKeyOrders == { <<"err", "error">>, <<"error", "err">>, <<"err">> }
ResponsesKeyOrders == { <<"error">>, <<>> }
GroupOrders == { <<"schemas", "responses">>, <<"responses", "schemas">> }

RefTargets ==
  { Pointer("schemas", "err"), Pointer("schemas", "error"),
    Pointer("responses", "error"), Pointer("schemas", "missing") }

LeafBodies == { <<>>, <<"a">>, <<"$$">> }
RefBodies ==
  { <<RefMember(p)>> : p \in RefTargets } \cup { <<RefMember(p), "s">> : p \in RefTargets }
ComponentBodies == LeafBodies \cup RefBodies
PathBodies ==
  { <<RefMember(p)>> : p \in RefTargets }
    \cup { <<RefMember(Pointer("schemas", "err")), "s">>, <<EmptyRef>> }

MaxPathObjects == 1

DeclaredBy(keys) ==
  { Pointer(g, keys[g][k]) : g \in {"schemas"}, k \in DOMAIN keys.schemas }
    \cup { Pointer(g, keys[g][k]) : g \in {"responses"}, k \in DOMAIN keys.responses }

GroupsOf(order, keys, body) ==
  [g \in DOMAIN order |->
     [name |-> order[g],
      entries |-> [k \in DOMAIN keys[order[g]] |->
                     [key |-> keys[order[g]][k],
                      value |-> body[Pointer(order[g], keys[order[g]][k])]]]]]

DocumentsWith(keys) ==
  { [paths |-> sites, components |-> GroupsOf(order, keys, body)] :
      sites \in (SeqsUpTo(PathBodies, MaxPathObjects) \ { <<>> }),
      order \in GroupOrders,
      body \in [DeclaredBy(keys) -> ComponentBodies] }

InitResolve ==
  /\ pc = "resolve"
  /\ \E keys \in [schemas : SchemasKeyOrders, responses : ResponsesKeyOrders] :
       openApiSpec \in DocumentsWith(keys)
  /\ specs = EmptyDocument
  /\ groupIdx = 0
  /\ keyIdx = 0
  /\ remainingRefsList = <<>>
  /\ failure = "none"
  /\ IdlePath
  /\ IdleFilter
  /\ IdleRoutes

\* src/index.js:21
CopySpecs ==
  /\ pc = "resolve"
  /\ specs' = openApiSpec
  /\ groupIdx' = 1
  /\ keyIdx' = 1
  /\ pc' = "forEach"
  /\ UNCHANGED <<openApiSpec, remainingRefsList, failure, pathVars, filterVars, routesVars>>

\* src/index.js:26-30, one component key
ResolveComponent ==
  /\ pc = "forEach"
  /\ groupIdx <= Len(specs.components)
  /\ keyIdx <= Len(specs.components[groupIdx].entries)
  /\ IF ResolveParses(specs, groupIdx, keyIdx)
     THEN /\ specs' = ResolvedOnce(specs, groupIdx, keyIdx)
          /\ keyIdx' = keyIdx + 1
          /\ UNCHANGED <<pc, failure>>
     ELSE /\ pc' = "threw"
          /\ failure' = "SyntaxError"
          /\ UNCHANGED <<specs, keyIdx>>
  /\ UNCHANGED <<openApiSpec, groupIdx, remainingRefsList, pathVars, filterVars, routesVars>>

\* src/index.js:22-25,31-32, on to the next component group
NextGroup ==
  /\ pc = "forEach"
  /\ groupIdx <= Len(specs.components)
  /\ keyIdx > Len(specs.components[groupIdx].entries)
  /\ groupIdx' = groupIdx + 1
  /\ keyIdx' = 1
  /\ UNCHANGED <<pc, openApiSpec, specs, remainingRefsList, failure, pathVars, filterVars, routesVars>>

\* src/index.js:34-40
ScanRefs ==
  /\ pc = "forEach"
  /\ groupIdx > Len(specs.components)
  /\ remainingRefsList' = getRefsInsideSpec(stringifySpecs(specs))
  /\ IF Len(remainingRefsList') > 0
     THEN pc' = "exited" /\ failure' = "UnresolvedReferences"
     ELSE pc' = "returned" /\ failure' = "none"
  /\ UNCHANGED <<openApiSpec, specs, groupIdx, keyIdx, pathVars, filterVars, routesVars>>

NextResolve == CopySpecs \/ ResolveComponent \/ NextGroup \/ ScanRefs

SpecResolve == InitResolve /\ [][NextResolve]_vars

ResolveEnded == pc \in {"returned", "exited", "threw"}

\* The components a document declares, each with its pointer.
ComponentsOf(doc) ==
  UNION { { [pointer |-> Pointer(doc.components[g].name, doc.components[g].entries[k].key),
             value |-> doc.components[g].entries[k].value] :
              k \in DOMAIN doc.components[g].entries } :
          g \in DOMAIN doc.components }

Declared(doc) == { c.pointer : c \in ComponentsOf(doc) }

BodyAt(doc, pointer) == (CHOOSE c \in ComponentsOf(doc) : c.pointer = pointer).value

RefsIn(object) == { p \in Pointers : RefMember(p) \in Range(object) }

HoldsRef(object) == \E i \in DOMAIN object : IsRef(object[i])

\* The pointers the document uses and no component answers.
Orphans(doc) ==
  { p \in Pointers :
      /\ \E i \in DOMAIN ObjectsOf(doc) : p \in RefsIn(ObjectsOf(doc)[i])
      /\ p \notin Declared(doc) }

RECURSIVE RefClosure(_, _)
RefClosure(doc, reached) ==
  LET more == reached \cup
                { q \in Declared(doc) : \E p \in reached : q \in RefsIn(BodyAt(doc, p)) }
  IN IF more = reached THEN reached ELSE RefClosure(doc, more)

\* The components reached from a component by one reference or more.
ReachedFrom(doc, pointer) ==
  RefClosure(doc, { q \in Declared(doc) : q \in RefsIn(BodyAt(doc, pointer)) })

HasCycle(doc) == \E p \in Declared(doc) : p \in ReachedFrom(doc, p)

\* The object with each reference to a declared component replaced, in
\* place, by the members of that component, themselves inlined (the tree
\* substitution the specification describes).
RECURSIVE Inlined(_, _, _)
Inlined(doc, object, depth) ==
  Dedupe(Concat([i \in DOMAIN object |->
    IF IsRef(object[i]) /\ depth > 0
         /\ \E p \in Declared(doc) : object[i] = RefMember(p)
    THEN Inlined(doc,
                 BodyAt(doc, CHOOSE p \in Declared(doc) : object[i] = RefMember(p)),
                 depth - 1)
    ELSE <<object[i]>>]))

\* An object with a member of key $ref, whatever its value.
HoldsRefEntry(object) == \E i \in DOMAIN object : KeyOf(object[i]) = "$ref"

C2_OrphansReported ==
  (ResolveEnded /\ Orphans(openApiSpec) # {}) =>
     /\ pc = "exited"
     /\ \A p \in Orphans(openApiSpec) : RefMember(p) \in Range(remainingRefsList)

\* A use site of an outer component that holds a reference to another
\* declared component, in a document without cycle or orphan.
HasChain(doc) ==
  /\ ~HasCycle(doc)
  /\ Orphans(doc) = {}
  /\ \E i \in DOMAIN doc.paths : \E p \in RefsIn(doc.paths[i]) :
       /\ p \in Declared(doc)
       /\ \E q \in RefsIn(BodyAt(doc, p)) : q \in Declared(doc) /\ q # p

\* C3: with an acyclic chain of components, the resolved document holds,
\* at every use site, the fully inlined content of the whole chain,
\* whatever the order of the groups and of the keys.
C3_ChainInlined ==
  (ResolveEnded /\ HasChain(openApiSpec)) =>
     /\ pc = "returned"
     /\ \A i \in DOMAIN openApiSpec.paths :
          specs.paths[i] =
            Inlined(openApiSpec, openApiSpec.paths[i], Cardinality(Declared(openApiSpec)))

\* C4: with a cycle among the components, resolveInternalReferences ends,
\* in a failure, and the failure is a CyclicReferenceError.
C4_CycleReported ==
  (ResolveEnded /\ HasCycle(openApiSpec)) =>
     /\ pc # "returned"
     /\ failure = "CyclicReferenceError"

(***************************************************************************)
(* transformPath (src/index.js:48-50)                                      *)
(***************************************************************************)
MaxPathLen == 5

PathAlphabet == {"/", "a", "{", "}"}

transformPath_firstOnly(p) ==
  replaceFirstChar(replaceFirstChar(p, "}", <<>>), "{", <<":">>)

transformPath(p) ==
  replaceAllChar(replaceAllChar(p, "}", <<>>), "{", <<":">>)

InitPath ==
  /\ pc = "path"
  /\ path \in SeqsUpTo(PathAlphabet, MaxPathLen)
  /\ url = <<>>
  /\ IdleFilter
  /\ IdleResolve
  /\ IdleRoutes

CallTransformPath ==
  /\ pc = "path"
  /\ url' = transformPath(path)
  /\ pc' = "pathDone"
  /\ UNCHANGED <<path, filterVars, resolveVars, routesVars>>

NextPath == CallTransformPath

SpecPath == InitPath /\ [][NextPath]_vars

\* The rewriting the specification describes: each brace-delimited variable
\* {name} becomes :name, every other character is kept where it is.
RECURSIVE RewriteVariables(_)
RewriteVariables(p) ==
  IF p = <<>> THEN <<>>
  ELSE LET stops == { j \in 2..Len(p) : p[j] \in {"{", "}"} }
           j == IF stops = {} THEN 0
                ELSE CHOOSE x \in stops : \A y \in stops : x <= y
       IN IF Head(p) = "{" /\ j > 0 /\ p[j] = "}"
          THEN <<":">> \o SubSeq(p, 2, j - 1)
                 \o RewriteVariables(SubSeq(p, j + 1, Len(p)))
          ELSE <<Head(p)>> \o RewriteVariables(Tail(p))

\* Every brace of the template belongs to a variable: braces alternate,
\* starting with an opening one and ending with a closing one.
RECURSIVE BracesPaired(_, _)
BracesPaired(p, open) ==
  IF p = <<>> THEN ~open
  ELSE IF Head(p) = "{" THEN ~open /\ BracesPaired(Tail(p), TRUE)
  ELSE IF Head(p) = "}" THEN open /\ BracesPaired(Tail(p), FALSE)
  ELSE BracesPaired(Tail(p), open)

NoBraces(p) == \A i \in DOMAIN p : p[i] \notin {"{", "}"}

\* C9 (as stated): transformPath rewrites every {name} to :name and keeps
\* every other character and the segment order, for every template.
C9_Original ==
  pc = "pathDone" => url = RewriteVariables(path)

\* C9 (amended): for a template whose braces pair up into variables,
\* transformPath rewrites every {name} to :name and keeps every other
\* character in place; a template with no braces is returned unchanged.
C9_TransformPaired ==
  pc = "pathDone" =>
    /\ BracesPaired(path, FALSE) => url = RewriteVariables(path)
    /\ NoBraces(path) => url = path

\* C9 witness: a template with two variables has been transformed.
C9_Witness ==
  /\ pc = "pathDone"
  /\ path = <<"{", "a", "}", "{", "}">>
  /\ url = <<":", "a", ":">>

(***************************************************************************)
(* Strings that are taken apart (operation ids, verbs) are sequences of    *)
(* characters or are looked up in a table.                                 *)
(***************************************************************************)
\* String.prototype.toLowerCase on one character
toLowerCase(char) ==
  CASE char = "G" -> "g"
    [] char = "A" -> "a"
    [] char = "X" -> "x"
    [] char = "S" -> "s"
    [] OTHER -> char

\* String.prototype.toUpperCase on a method name
toUpperCase(method) ==
  CASE method = "get" -> "GET"
    [] method = "put" -> "PUT"
    [] method = "post" -> "POST"
    [] method = "delete" -> "DELETE"
    [] method = "options" -> "OPTIONS"
    [] method = "head" -> "HEAD"
    [] method = "patch" -> "PATCH"
    [] method = "trace" -> "TRACE"
    [] OTHER -> method

\* createCamelCaseFromStr (src/index.js:57-59)
createCamelCaseFromStr(str) ==
  IF str = <<>> THEN <<>> ELSE <<toLowerCase(Head(str))>> \o Tail(str)

\* parseParameterKey (src/index.js:66-70)
parseParameterKey(paramKey) ==
  IF paramKey = "path" THEN "params"
  ELSE IF paramKey = "query" THEN "querystring"
  ELSE paramKey

\* wrapEmptyObjects (src/index.js:277-284)
wrapEmptyObjects(properties) == [type |-> "object", properties |-> properties]

\* parseParameters (src/index.js:77-101): the reduce of lines 81-96
RECURSIVE reduceParameters(_, _)
reduceParameters(acc, parameterArray) ==
  IF parameterArray = <<>> THEN acc
  ELSE LET param == Head(parameterArray)
           key == parseParameterKey(param.in)
           before == IF Has(acc, key) THEN acc[key] ELSE EmptyObject
       IN reduceParameters(Put(acc, key, Put(before, param.name, param.schema)),
                           Tail(parameterArray))

parseParameters(parameterArray) ==
  LET outputParameters == reduceParameters(EmptyObject, parameterArray)
  IN [typeParam \in DOMAIN outputParameters |->
        wrapEmptyObjects(outputParameters[typeParam])]

\* obj.key, an absent key (undefined) read as an object without keys: the
\* readers below only ask such a value for further keys.
Field(obj, key) == IF Has(obj, key) THEN obj[key] ELSE EmptyObject

\* parseRequestBody (src/index.js:144-151): [kind, value, arg], arg the
\* request body after the call.
parseRequestBody(requestBody) ==
  LET content == Field(requestBody, "content")
  IN IF Has(content, "application/json")
     THEN IF ~Has(content["application/json"], "schema")
          THEN Threw("TypeError", requestBody)
          ELSE LET r == filterReadOnlyProperties(content["application/json"]["schema"])
                   after == Put(requestBody, "content",
                                Put(content, "application/json",
                                    Put(content["application/json"], "schema", r.arg)))
               IN IF r.kind = "returned"
                  THEN Returned([body |-> r.value], after)
                  ELSE Threw(r.kind, requestBody)
     ELSE Returned(EmptyObject, requestBody)

\* parseResponses (src/index.js:198-208), the responses a sequence of
\* [code, response] in the order of Object.keys: [kind, value].
RECURSIVE reduceResponses(_, _)
reduceResponses(acc, responseSpecList) ==
  IF responseSpecList = <<>> THEN [kind |-> "returned", value |-> acc]
  ELSE LET responseCode == Head(responseSpecList).code
           typesOfResponse == Head(responseSpecList).response
           content == Field(typesOfResponse, "content")
       IN IF Has(content, "application/json")
          THEN LET r == filterWriteOnlyProperties(
                          Field(content["application/json"], "schema"))
               IN IF r.kind = "returned"
                  THEN reduceResponses(Put(acc, responseCode, r.value),
                                       Tail(responseSpecList))
                  ELSE [kind |-> r.kind, value |-> EmptyObject]
          ELSE reduceResponses(acc, Tail(responseSpecList))

\* The responses after the call: a filter writes into the items of an
\* array schema.
responsesAfter(responseSpecList) ==
  [i \in DOMAIN responseSpecList |->
     LET typesOfResponse == responseSpecList[i].response
         content == Field(typesOfResponse, "content")
     IN IF Has(content, "application/json") /\ Has(content["application/json"], "schema")
        THEN [code |-> responseSpecList[i].code,
              response |->
                Put(typesOfResponse, "content",
                    Put(content, "application/json",
                        Put(content["application/json"], "schema",
                            filterWriteOnlyProperties(
                              content["application/json"]["schema"]).arg)))]
        ELSE responseSpecList[i]]

parseResponses(responseSpecList) ==
  LET r == reduceResponses(EmptyObject, responseSpecList)
  IN IF r.kind # "returned" THEN Threw(r.kind, responseSpecList)
     ELSE Returned(IF DOMAIN r.value # {} THEN [response |-> r.value]
                   ELSE EmptyObject,
                   responsesAfter(responseSpecList))

(***************************************************************************)
(* parseMethods (src/index.js:218-245)                                     *)
(* A path item is [order, parameters, operations]: its keys in declared    *)
(* order, the value of its `parameters` key, and the operation of each key *)
(* that holds one.                                                         *)
(***************************************************************************)
methodsArray_noTrace == {"get", "put", "post", "delete", "options", "head", "patch"}

methodsArray == {"get", "put", "post", "delete", "options", "head", "patch", "trace"}

\* Object.keys(openAPIMethodSpecList).filter(...) (src/index.js:222-223)
filterMethods(openAPIMethodSpecList) ==
  SelectSeq(openAPIMethodSpecList.order, LAMBDA method : method \in methodsArray)

\* openAPIMethodSpecList.parameters || []
globalParametersOf(openAPIMethodSpecList) ==
  IF "parameters" \in Range(openAPIMethodSpecList.order)
  THEN openAPIMethodSpecList.parameters ELSE <<>>

\* localParameters.concat(globalParameters), with the operands exchanged
concatParameters_globalFirst(localParameters, globalParameters) ==
  globalParameters \o localParameters

\* localParameters.concat(globalParameters) (src/index.js:234,238)
concatParameters(localParameters, globalParameters) ==
  localParameters \o globalParameters

\* A function of the registry: !handlers[id] || typeof handlers[id] !== 'function'
Callables == {"getDocument()", "addDocument()"}

HandlerAbsent(handlers_, operationId) ==
  \/ ~Has(handlers_, operationId)
  \/ handlers_[operationId] \notin Callables

\* src/index.js:233-243, the route of one method whose handler exists:
\* [kind, value, arg], arg the operation after the call.
routeOfMethod(method, operation, globalParameters, handlers_) ==
  LET operationId == createCamelCaseFromStr(operation.operationId)
      localParameters == IF Has(operation, "parameters") THEN operation.parameters ELSE <<>>
      params == parseParameters(concatParameters(localParameters, globalParameters))
      body == parseRequestBody(Field(operation, "requestBody"))
      response == parseResponses(operation.responses)
  IN IF body.kind # "returned" THEN Threw(body.kind, operation)
     ELSE IF response.kind # "returned" THEN Threw(response.kind, operation)
     ELSE Returned([method |-> toUpperCase(method),
                    schema |-> response.value @@ body.value @@ params,
                    handler |-> handlers_[operationId]],
                   Put(IF Has(operation, "requestBody")
                       THEN Put(operation, "requestBody", body.arg) ELSE operation,
                       "responses", response.arg))

(***************************************************************************)
(* routesFromOpenApiSpecs (src/index.js:253-270)                           *)
(* The document is an object with `paths`, a sequence of [template, item]  *)
(* in document order, and, when it has them, `components`.                 *)
(***************************************************************************)
MaxPaths == 2

\* The keys of a path item that are HTTP verbs.
HttpVerbs == {"get", "put", "post", "delete", "options", "head", "patch", "trace"}

Param(name, in, type) == [name |-> name, in |-> in, schema |-> [type |-> type]]

JsonContent(s) == [content |-> ("application/json" :> [schema |-> s])]

PdfContent == [content |-> ("application/pdf" :> [schema |-> [type |-> "string"]])]

ReadSchema ==
  [properties |-> [a |-> [readOnly |-> TRUE], b |-> EmptyObject], required |-> <<"a", "b">>]

WriteSchema == [properties |-> [p |-> [writeOnly |-> TRUE], q |-> EmptyObject]]

NoRequiredSchema == [properties |-> [b |-> EmptyObject]]

ArraySchema == [type |-> "array", items |-> ReadSchema]

PlainResponses == << [code |-> "200", response |-> [description |-> "done"]] >>

JsonResponses ==
  << [code |-> "200", response |-> JsonContent(WriteSchema)],
     [code |-> "4xx", response |-> [description |-> "error"]] >>

opOk ==
  [operationId |-> <<"G", "d">>, parameters |-> <<Param("id", "path", "integer")>>,
   requestBody |-> PdfContent, responses |-> PlainResponses]

opBody ==
  [operationId |-> <<"a", "d">>, requestBody |-> JsonContent(ReadSchema),
   responses |-> JsonResponses]

opArray ==
  [operationId |-> <<"A", "d">>, requestBody |-> JsonContent(ArraySchema),
   responses |-> PlainResponses]

opNoRequired ==
  [operationId |-> <<"a", "d">>, requestBody |-> JsonContent(NoRequiredSchema),
   responses |-> PlainResponses]

opMissing == [operationId |-> <<"X", "d">>, responses |-> PlainResponses]

opNotFunction == [operationId |-> <<"s", "d">>, responses |-> PlainResponses]

\* The operations of the first and of the second method of a path item.
OperationPairs ==
  { <<opOk, opBody>>, <<opOk, opMissing>>, <<opMissing, opNotFunction>>,
    <<opNoRequired, opMissing>>, <<opArray, opOk>>, <<opNotFunction, opOk>> }

ItemOrders ==
  { <<"get">>, <<"parameters", "post">>, <<"post", "get">>, <<"get", "summary", "trace">> }

SharedParameters == << Param("id", "path", "string"), Param("id", "query", "string") >>

PathItems ==
  { [order |-> order,
     parameters |-> SharedParameters,
     operations |->
       LET methods == SelectSeq(order, LAMBDA key : key \in HttpVerbs)
       IN [m \in Range(methods) |->
             pair[CHOOSE i \in DOMAIN methods : methods[i] = m]]] :
      order \in ItemOrders, pair \in OperationPairs }

\* The template of the i-th path: /a, /a/{a}, /a/{a}/{a}, ...
RECURSIVE Template(_)
Template(i) ==
  IF i <= 1 THEN <<"/", "a">> ELSE Template(i - 1) \o <<"/", "{", "a", "}">>

PathLists ==
  { [i \in DOMAIN items |-> [template |-> Template(i), item |-> items[i]]] :
      items \in (SeqsUpTo(PathItems, MaxPaths) \ { <<>> }) }

ComponentChoices ==
  { <<>>,
    << [name |-> "schemas",
        entries |-> << [key |-> "err", value |-> <<"a">>] >>] >>,
    << [name |-> "schemas",
        entries |-> << [key |-> "err",
                        value |-> <<RefMember(Pointer("schemas", "err"))>>] >>] >> }

RawDocuments ==
  { [paths |-> paths] : paths \in PathLists }
    \cup { [paths |-> paths, components |-> c] : paths \in PathLists, c \in ComponentChoices }

Registry ==
  (<<"g", "d">> :> "getDocument()") @@ (<<"a", "d">> :> "addDocument()")
    @@ (<<"s", "d">> :> "a string")

InitRoutes ==
  /\ pc = "routes"
  /\ openAPiRawSpecs \in RawDocuments
  /\ rawBefore = openAPiRawSpecs
  /\ handlers = Registry
  /\ handlersBefore = handlers
  /\ resolvedSpecs = [paths |-> <<>>, components |-> <<>>]
  /\ routes = <<>>
  /\ parsedRoutes = <<>>
  /\ pathIdx = 0
  /\ methodIdx = 0
  /\ fatal = "none"
  /\ reported = <<>>
  /\ IdlePath
  /\ IdleFilter
  /\ IdleResolve

\* src/index.js:254-256
DefaultComponents ==
  /\ pc = "routes"
  /\ routes' = <<>>
  /\ openAPiRawSpecs' =
       IF Has(openAPiRawSpecs, "components") THEN openAPiRawSpecs
       ELSE Put(openAPiRawSpecs, "components", <<>>)
  /\ pc' = "resolveRefs"
  /\ UNCHANGED <<rawBefore, handlers, handlersBefore, resolvedSpecs, parsedRoutes,
                 pathIdx, methodIdx, fatal, reported, pathVars, filterVars, resolveVars>>

\* src/index.js:257.  The path items of these documents hold no $ref: the
\* references to resolve are those of the components.
ResolveReferences ==
  /\ pc = "resolveRefs"
  /\ LET r == resolveInternalReferences(
                [paths |-> <<>>, components |-> openAPiRawSpecs["components"]])
     IN IF r.kind = "returned"
        THEN /\ resolvedSpecs' = [paths |-> openAPiRawSpecs["paths"],
                                  components |-> r.specs.components]
             /\ pc' = "forEachPath"
             /\ pathIdx' = 1
             /\ methodIdx' = 1
             /\ UNCHANGED fatal
        ELSE /\ pc' = IF r.kind = "exited" THEN "exited" ELSE "threw"
             /\ fatal' = IF r.kind = "exited" THEN "UnresolvedReferences" ELSE "SyntaxError"
             /\ UNCHANGED <<resolvedSpecs, pathIdx, methodIdx>>
  /\ UNCHANGED <<openAPiRawSpecs, rawBefore, handlers, handlersBefore, routes,
                 parsedRoutes, reported, pathVars, filterVars, resolveVars>>

\* src/index.js:224-244, one turn of the map of parseMethods
ParseMethod ==
  /\ pc = "forEachPath"
  /\ pathIdx <= Len(resolvedSpecs.paths)
  /\ LET openAPIMethodSpecList == resolvedSpecs.paths[pathIdx].item
         methods == filterMethods(openAPIMethodSpecList)
     IN /\ methodIdx <= Len(methods)
        /\ LET method == methods[methodIdx]
               operation == openAPIMethodSpecList.operations[method]
               operationId == createCamelCaseFromStr(operation.operationId)
               r == routeOfMethod(method, operation,
                                  globalParametersOf(openAPIMethodSpecList), handlers)
           IN IF HandlerAbsent(handlers, operationId)
              THEN /\ pc' = "exited"
                   /\ fatal' = "MissingHandler"
                   /\ reported' = operationId
                   /\ UNCHANGED <<parsedRoutes, methodIdx, resolvedSpecs>>
              ELSE IF r.kind # "returned"
              THEN /\ pc' = "threw"
                   /\ fatal' = r.kind
                   /\ UNCHANGED <<parsedRoutes, methodIdx, resolvedSpecs, reported>>
              ELSE /\ parsedRoutes' = Append(parsedRoutes, r.value)
                   /\ methodIdx' = methodIdx + 1
                   /\ resolvedSpecs' =
                        [resolvedSpecs EXCEPT
                           ![ "paths" ][pathIdx].item.operations[method] = r.arg]
                   /\ UNCHANGED <<pc, fatal, reported>>
  /\ UNCHANGED <<openAPiRawSpecs, rawBefore, handlers, handlersBefore, routes,
                 pathIdx, pathVars, filterVars, resolveVars>>

\* src/index.js:260-267, the routes of one path, each with the url
PushRoutes ==
  /\ pc = "forEachPath"
  /\ pathIdx <= Len(resolvedSpecs.paths)
  /\ methodIdx > Len(filterMethods(resolvedSpecs.paths[pathIdx].item))
  /\ LET transformed == transformPath(resolvedSpecs.paths[pathIdx].template)
     IN routes' = routes \o
          [i \in DOMAIN parsedRoutes |-> Put(parsedRoutes[i], "url", transformed)]
  /\ parsedRoutes' = <<>>
  /\ pathIdx' = pathIdx + 1
  /\ methodIdx' = 1
  /\ UNCHANGED <<pc, openAPiRawSpecs, rawBefore, handlers, handlersBefore, resolvedSpecs,
                 fatal, reported, pathVars, filterVars, resolveVars>>

\* src/index.js:269
ReturnRoutes ==
  /\ pc = "forEachPath"
  /\ pathIdx > Len(resolvedSpecs.paths)
  /\ pc' = "returned"
  /\ UNCHANGED <<openAPiRawSpecs, rawBefore, handlers, handlersBefore, resolvedSpecs,
                 routes, parsedRoutes, pathIdx, methodIdx, fatal, reported,
                 pathVars, filterVars, resolveVars>>

NextRoutes ==
  DefaultComponents \/ ResolveReferences \/ ParseMethod \/ PushRoutes \/ ReturnRoutes

SpecRoutes == InitRoutes /\ [][NextRoutes]_vars

RoutesEnded == pc \in {"returned", "exited", "threw"}

\* The (path, method) pairs of a document in document order: the paths in
\* their order, in each the verbs among its keys in declared order.
RouteSources(doc) ==
  Concat([i \in DOMAIN doc["paths"] |->
    LET verbs == SelectSeq(doc["paths"][i].item.order, LAMBDA key : key \in HttpVerbs)
    IN [j \in DOMAIN verbs |-> [path |-> i, method |-> verbs[j]]]])

UpperCased ==
  [get |-> "GET", put |-> "PUT", post |-> "POST", delete |-> "DELETE",
   options |-> "OPTIONS", head |-> "HEAD", patch |-> "PATCH", trace |-> "TRACE"]

\* C7: on success there is exactly one route descriptor per (path, verb
\* key) pair, none for any other key, each with the upper-cased verb and the
\* transformed URL of its path, in document path order and then in the
\* declared order of the methods.
C7_RoutesInDocumentOrder ==
  pc = "returned" =>
    LET sources == RouteSources(rawBefore)
    IN /\ Len(routes) = Len(sources)
       /\ \A i \in DOMAIN sources :
            /\ routes[i].method = UpperCased[sources[i].method]
            /\ routes[i].url = transformPath(rawBefore["paths"][sources[i].path].template)

\* C7 witness: two paths, one with a key that is no verb between two
\* methods, compiled to four routes.
C7_Witness ==
  /\ pc = "returned"
  /\ Len(routes) = 4
  /\ rawBefore["paths"][1].item.order = <<"get", "summary", "trace">>
  /\ rawBefore["paths"][2].item.order = <<"post", "get">>
  /\ routes[2].method = "TRACE"
  /\ routes[3].method = "POST"

\* The operations of a document whose handler name (the operation id with
\* its first character lower-cased) is missing from the registry or names
\* no function.
MissingHandlers(doc, registry) ==
  { createCamelCaseFromStr(doc["paths"][src.path].item.operations[src.method].operationId) :
      src \in { s \in Range(RouteSources(doc)) :
                  LET id == createCamelCaseFromStr(
                              doc["paths"][s.path].item.operations[s.method].operationId)
                  IN ~Has(registry, id) \/ registry[id] \notin Callables } }

ReferencesResolve(doc) ==
  resolveInternalReferences(
    [paths |-> <<>>, components |-> Field(doc, "components")]).kind = "returned"

\* C5: when an operation has no callable handler, routesFromOpenApiSpecs,
\* once the references are resolved, ends in the fatal missing-handler
\* failure naming such an operation and returns no route list, also when
\* earlier paths or methods compiled.
C5_MissingHandlerFatal ==
  (RoutesEnded /\ ReferencesResolve(rawBefore)
     /\ MissingHandlers(rawBefore, handlersBefore) # {}) =>
     /\ pc = "exited"
     /\ fatal = "MissingHandler"
     /\ reported \in MissingHandlers(rawBefore, handlersBefore)

\* C8: a compilation run leaves the caller's document, its components key
\* included, and the handler registry as they were before the call.
C8_InputsUntouched ==
  RoutesEnded => (openAPiRawSpecs = rawBefore /\ handlers = handlersBefore)

\* The location group of a parameter location.
LocationGroup(in) ==
  CASE in = "path" -> "params"
    [] in = "query" -> "querystring"
    [] OTHER -> in

\* The operation's own parameters and the shared ones of its path item.
LocalParametersAt(doc, src) ==
  LET operation == doc["paths"][src.path].item.operations[src.method]
  IN IF Has(operation, "parameters") THEN operation.parameters ELSE <<>>

SharedParametersAt(doc, src) ==
  LET item == doc["paths"][src.path].item
  IN IF "parameters" \in Range(item.order) THEN item.parameters ELSE <<>>

\* C10: when an operation and its path item declare a parameter of the same
\* name and location, the route schema of that location carries the schema
\* of the path item's parameter; parameters of the same name in different
\* locations stay in separate location groups.
C10_SharedParameterWins ==
  pc = "returned" =>
    \A i \in DOMAIN routes :
      LET src == RouteSources(rawBefore)[i]
          local == Range(LocalParametersAt(rawBefore, src))
          shared == Range(SharedParametersAt(rawBefore, src))
      IN /\ \A l \in local : \A g \in shared :
              (l.name = g.name /\ l.in = g.in) =>
                routes[i].schema[LocationGroup(g.in)].properties[g.name] = g.schema
         /\ \A p \in local \cup shared : \A q \in local \cup shared :
              (p.name = q.name /\ p.in # q.in) =>
                /\ LocationGroup(p.in) # LocationGroup(q.in)
                /\ Has(routes[i].schema[LocationGroup(p.in)].properties, p.name)
                /\ Has(routes[i].schema[LocationGroup(q.in)].properties, q.name)

\* C10 witness: an operation with its own path parameter `id` under a path
\* item that shares a path parameter `id` and a query parameter `id` has
\* been compiled.
C10_Witness ==
  /\ pc = "returned"
  /\ \E i \in DOMAIN routes :
       LET src == RouteSources(rawBefore)[i]
       IN /\ Param("id", "path", "integer") \in Range(LocalParametersAt(rawBefore, src))
          /\ Param("id", "path", "string") \in Range(SharedParametersAt(rawBefore, src))
          /\ routes[i].schema["params"].properties["id"] = [type |-> "string"]
          /\ Has(routes[i].schema["querystring"].properties, "id")

====
